---------------------------- MODULE Spec2Model ----------------------------
(***************************************************************************)
(* A model of crawl_github_files (src/utils/crawl_github_files.py): the    *)
(* URL resolver, the pattern filter, the iterative remote tree walker with *)
(* its rate-limit wait, the clone fallback and the SSH clone path.         *)
(*                                                                         *)
(* Strings are sequences of one-character strings, so that fnmatch,        *)
(* startswith, lstrip, split and join are computed character by character. *)
(***************************************************************************)
EXTENDS Integers, Sequences, FiniteSets, TLC

\* ------------------------------------------------------------------ bounds

\* Largest max_file_size a request asks for (requests use 2..MaxSizeLimit).
MaxSizeLimit == 3

\* Largest X-RateLimit-Reset minus now, in seconds, that the host answers.
MaxResetAhead == 3

\* ------------------------------------------------------- program constants

MAX_TRAVERSAL_DEPTH == 50

\* total_files > 1000 chooses the clone fallback
FileThreshold == 1000

\* ----------------------------------------------------------------- strings

EmptyStr == << >>

RECURSIVE fnmatch(_, _)
\* fnmatch.fnmatch(name, pat) on a POSIX host: "*" matches any run of
\* characters ("/" included), "?" matches one character, any other
\* character matches itself; the whole name must be matched.
fnmatch(name, pat) ==
    IF pat = << >> THEN name = << >>
    ELSE IF Head(pat) = "*"
         THEN fnmatch(name, Tail(pat))
              \/ (name # << >> /\ fnmatch(Tail(name), pat))
         ELSE /\ name # << >>
              /\ (Head(pat) = "?" \/ Head(pat) = Head(name))
              /\ fnmatch(Tail(name), Tail(pat))

\* str.startswith
startswith(s, prefix) ==
    /\ Len(prefix) <= Len(s)
    /\ SubSeq(s, 1, Len(prefix)) = prefix

RECURSIVE lstrip_slash(_)
\* str.lstrip('/')
lstrip_slash(s) ==
    IF s # << >> /\ Head(s) = "/" THEN lstrip_slash(Tail(s)) ELSE s

RECURSIVE rstrip_slash(_)
rstrip_slash(s) ==
    IF s # << >> /\ s[Len(s)] = "/" THEN rstrip_slash(SubSeq(s, 1, Len(s) - 1)) ELSE s

\* str.strip('/')
strip_slash(s) == rstrip_slash(lstrip_slash(s))

RECURSIVE split_from(_, _, _)
split_from(s, i, acc) ==
    IF i > Len(s) THEN << acc >>
    ELSE IF s[i] = "/" THEN << acc >> \o split_from(s, i + 1, << >>)
         ELSE split_from(s, i + 1, Append(acc, s[i]))

\* str.split('/'): a sequence of strings ("".split('/') is [""])
split_slash(s) == split_from(s, 1, << >>)

RECURSIVE join_slash(_)
\* '/'.join(parts)
join_slash(parts) ==
    IF parts = << >> THEN << >>
    ELSE IF Len(parts) = 1 THEN parts[1]
         ELSE parts[1] \o << "/" >> \o join_slash(Tail(parts))

\* os.path.basename of a repository path; the "name" field of an API entry
basename(path) ==
    LET parts == split_slash(path) IN parts[Len(parts)]

\* the directory holding a path ("" for a top-level entry)
dirname(path) ==
    LET parts == split_slash(path) IN join_slash(SubSeq(parts, 1, Len(parts) - 1))


\* Python's None (never equal to a string of the model)
None == << "<None>" >>

\* ------------------------------------------------- the hosted repository

\* The repository behind the URL, as the contents API lists it: each entry
\* with its path, type, listed size and whether it carries a download_url.
\* Entries are in the order the host lists them.
RepoTree ==
    << [path |-> << "s" >>, type |-> "dir", size |-> 0, download_url |-> FALSE],
       [path |-> << "t", ".", "p" >>, type |-> "file", size |-> 1, download_url |-> TRUE],
       [path |-> << "z" >>, type |-> "dir", size |-> 0, download_url |-> FALSE],
       [path |-> << "s", "/", "a", ".", "p" >>, type |-> "file", size |-> 2, download_url |-> TRUE],
       [path |-> << "s", "/", "b", ".", "p" >>, type |-> "file", size |-> 3, download_url |-> TRUE],
       [path |-> << "s", "/", "r", ".", "m" >>, type |-> "file", size |-> 1, download_url |-> FALSE],
       [path |-> << "s", "/", "s" >>, type |-> "dir", size |-> 0, download_url |-> FALSE],
       [path |-> << "s", "/", "s", "/", "b", ".", "p" >>, type |-> "file", size |-> 1, download_url |-> TRUE] >>

RepoEntries == { RepoTree[i] : i \in 1..Len(RepoTree) }
RepoFiles == { e \in RepoEntries : e.type = "file" }
RepoDirs == { e \in RepoEntries : e.type = "dir" }

\* The directory that lists itself when the host answers pathologically.
LoopDir == << "z" >>

\* The JSON list GET /repos/{owner}/{repo}/contents/{path} answers with a
\* 200: the children of a directory; a file path answers its single entry.
\* With loops, LoopDir lists itself as one of its children.
Listing(path, loops) ==
    LET IsChild(e) == dirname(e.path) = path
        IsSelf(e) == e.path = path
        children == SelectSeq(RepoTree, IsChild)
        self == SelectSeq(RepoTree, IsSelf)
    IN  IF path # EmptyStr /\ self # << >> /\ self[1].type = "file" THEN self
        ELSE IF loops /\ path = LoopDir THEN children \o self
        ELSE children

\* Whether the host can answer 200 for a contents request of this path.
PathExists(path) == path = EmptyStr \/ \E e \in RepoEntries : e.path = path

\* The content of the blob at a repository path.
Content(path) == << "blob", path >>

\* The files of a clone's working directory, in os.walk order (top-down):
\* the repository's files and git's own .git directory.
WorkTree ==
    << [path |-> << "t", ".", "p" >>, size |-> 1],
       [path |-> << ".", "g", "/", "h" >>, size |-> 1],
       [path |-> << "s", "/", "a", ".", "p" >>, size |-> 2],
       [path |-> << "s", "/", "b", ".", "p" >>, size |-> 3],
       [path |-> << "s", "/", "r", ".", "m" >>, size |-> 1],
       [path |-> << "s", "/", "s", "/", "b", ".", "p" >>, size |-> 1] >>

\* --------------------------------------------------------------- requests

\* repo_url: its form ("https" for https://github.com/, "api" for
\* https://api.github.com/repos/, "ssh" for git@github.com:), the path that
\* follows, and whether it ends in ".git".
RepoUrls ==
    { [form |-> "ssh", path |-> << "o", "/", "r" >>, dotgit |-> TRUE],
      [form |-> "https", path |-> << "o", "/", "r" >>, dotgit |-> TRUE],
      [form |-> "https", path |-> << "o" >>, dotgit |-> FALSE],
      [form |-> "api", path |-> << "o", "/", "r" >>, dotgit |-> FALSE],
      [form |-> "https",
       path |-> << "o", "/", "r", "/", "t", "r", "e", "e", "/", "m", "/", "s" >>,
       dotgit |-> FALSE] }

\* A tree URL that names a ref and no subpath.
TreeRootUrls ==
    { [form |-> "https",
       path |-> << "o", "/", "r", "/", "t", "r", "e", "e", "/", "m" >>,
       dotgit |-> FALSE] }

\* A tree URL with three segments after tree/.
DeepTreeUrls ==
    { [form |-> "https",
       path |-> << "o", "/", "r", "/", "t", "r", "e", "e", "/", "m", "/", "s", "/", "s" >>,
       dotgit |-> FALSE] }

IncludeChoices ==
    { {}, { << "?", ".", "p" >> }, { << "s", "/", "*" >> } }

ExcludeChoices ==
    { {}, { << "s", "/", "s" >> }, { << "b", ".", "p" >> }, { << "s", "/", "*" >> } }

\* The branch lists GET /repos/{owner}/{repo}/branches can answer for a
\* repository whose branch names hold no slash, in the order the host gives
\* them; << >> is what fetch_branches returns for an answer other than 200.
PlainBranchLists == { << >>, << << "m" >> >>, << << "x" >> >> }

\* The same for a repository with a branch m and a branch m/s, or with
\* the one branch m/s/s.
SlashedBranchLists ==
    { << >>,
      << << "m" >>, << "m", "/", "s" >> >>,
      << << "m", "/", "s" >>, << "m" >> >>,
      << << "m", "/", "s", "/", "s" >> >> }

\* ------------------------------------------------------------------ state

VARIABLES
    repo_url,           \* the request: see RepoUrls
    max_file_size,
    use_relative_paths,
    include_patterns,   \* a set of patterns; {} when none are given
    exclude_patterns,
    GIT_AVAILABLE,      \* whether GitPython could be imported
    selfListing,        \* the host: whether LoopDir lists itself
    slashedBranches,    \* the host: whether a branch name holds a slash
    cache_exists,       \* the file system: whether cache_dir is a directory
    pc,                 \* where the invocation is
    ref,
    specific_path,
    files,              \* path -> content
    skipped_files,      \* a list of << path, size >>
    stack,              \* fetch_contents: a list of [path, depth], top last
    cur,                \* fetch_contents: the item popped last
    contents_list,      \* fetch_contents: the entries still to process
    result,             \* what the invocation returned or raised
    requested,          \* the paths whose contents were requested so far
    listed,             \* the paths of the entries the walker processed so far
    rl,                 \* the rate-limit wait the walker last made, if any
    responses,          \* item path -> the last answer to its download
    all200,             \* whether every listing and download answered 200
    http,               \* whether the invocation issued any HTTP request
    tmpdir,             \* the TemporaryDirectory of the SSH path, if one was made
    branch_names,       \* the names of the fetched branch list
    meta_resp,          \* pre-check: the status of GET /repos/{owner}/{repo}
    total_files,        \* pre-check: the blobs counted in the recursive tree
    caught,             \* the exception e caught at line 386, if any
    notfound,           \* the 404 the walker last answered, if any
    prev,               \* the outcome of the crawl made before this one, if any
    git_op,             \* what the fallback ran on cache_dir: a clone or a pull
    peers,              \* invocations in the fallback at once: where each one is
    get                 \* one GET of the session: its answers and retries left

inputs == << repo_url, max_file_size, use_relative_paths, include_patterns,
             exclude_patterns, GIT_AVAILABLE, selfListing, slashedBranches >>

walker == << files, skipped_files, stack, cur, contents_list >>

\* what only a few steps touch
precheck == << meta_resp, total_files >>
rest == << http, tmpdir, branch_names, caught, notfound, prev >>

\* what the steps of one invocation never touch
aside == << peers, get >>

vars == << repo_url, max_file_size, use_relative_paths, include_patterns,
           exclude_patterns, GIT_AVAILABLE, selfListing, slashedBranches,
           cache_exists, pc, ref,
           specific_path, files, skipped_files, stack, cur, contents_list,
           result, requested, listed, rl, responses, all200, http, tmpdir,
           branch_names, meta_resp, total_files, caught, notfound, prev,
           git_op, peers, get >>

\* The branch lists GET /repos/{owner}/{repo}/branches can answer.
BranchLists == IF slashedBranches THEN SlashedBranchLists ELSE PlainBranchLists

NoItem == [path |-> None, depth |-> 0]
NoWait == [item |-> NoItem, reset_in |-> 0, wait_time |-> 0]
NoResult == [pending |-> TRUE]
EmptyFiles == [k \in {} |-> << >>]
NoTmpDir == [name |-> "<None>", exists |-> FALSE]
Unbound == -1
NoException == "<None>"
NoNotFound == [item |-> NoItem, message |-> "<None>"]
NoPrev == [pending |-> TRUE]
NoOp == "<None>"
\* branch_names before fetch_branches is called
NoBranches == << None >>

\* How many invocations are in the clone fallback for one (owner, repo) at
\* once.
MaxPeers == 2
Peers == 1..MaxPeers

\* Retry(total=5, ...): the retries one request may use.
RetryTotal == 5
NewGet == [answers |-> << >>, total |-> RetryTotal, outcome |-> "pending"]

\* The state after the call, for a request with one of the given URLs.
InitWith(urls, slashed, includes, excludes) ==
    /\ repo_url \in urls
    /\ max_file_size \in 2..MaxSizeLimit
    /\ use_relative_paths \in BOOLEAN
    /\ include_patterns \in includes
    /\ exclude_patterns \in excludes
    /\ GIT_AVAILABLE \in BOOLEAN
    /\ selfListing \in BOOLEAN
    /\ slashedBranches = slashed
    /\ cache_exists \in BOOLEAN
    /\ pc = "start"
    /\ ref = None
    /\ specific_path = EmptyStr
    /\ files = EmptyFiles
    /\ skipped_files = << >>
    /\ stack = << >>
    /\ cur = NoItem
    /\ contents_list = << >>
    /\ result = NoResult
    /\ requested = {}
    /\ listed = {}
    /\ rl = NoWait
    /\ responses = EmptyFiles
    /\ all200 = TRUE
    /\ http = FALSE
    /\ tmpdir = NoTmpDir
    /\ branch_names = NoBranches
    /\ meta_resp = Unbound
    /\ total_files = Unbound
    /\ caught = NoException
    /\ notfound = NoNotFound
    /\ prev = NoPrev
    /\ git_op = NoOp
    /\ peers = [i \in Peers |-> "check"]
    /\ get = NewGet

Init == InitWith(RepoUrls, FALSE, IncludeChoices, ExcludeChoices)

\* One filter; a host that lists no directory under itself and a file
\* system without the cache directory.
OneInclude == { << "?", ".", "p" >>, << "?", ".", "m" >> }
OneExclude == { << "s", "/", "s" >>, << "s", "/", "a", ".", "p" >> }
OneHost == ~ selfListing /\ ~ cache_exists

\* Requests that name a ref, against a repository whose branch names hold
\* slashes.
InitRefs ==
    /\ InitWith(RepoUrls \cup TreeRootUrls \cup DeepTreeUrls, TRUE,
                {OneInclude}, {OneExclude})
    /\ OneHost

\* Requests that are made twice.
InitTwice ==
    /\ InitWith(RepoUrls, FALSE, {OneInclude}, {OneExclude})
    /\ OneHost

\* ---------------------------------------------------------- pattern filter

\* should_include_file with the include patterns matched against the path
should_include_file_byPath(file_path, file_name) ==
    LET include_file ==
            IF include_patterns = {} THEN TRUE
            ELSE \E pattern \in include_patterns : fnmatch(file_path, pattern)
    IN  IF exclude_patterns # {} /\ include_file
        THEN ~ (\E pattern \in exclude_patterns : fnmatch(file_path, pattern))
        ELSE include_file

\* should_include_file with an include match overriding the exclude patterns
should_include_file_includeWins(file_path, file_name) ==
    IF include_patterns # {}
       /\ \E pattern \in include_patterns : fnmatch(file_name, pattern)
    THEN TRUE
    ELSE /\ include_patterns = {}
         /\ ~ (\E pattern \in exclude_patterns : fnmatch(file_path, pattern))

\* should_include_file with every pattern matched against the path and the
\* name alike
should_include_file_eitherWay(file_path, file_name) ==
    LET include_file ==
            IF include_patterns = {} THEN TRUE
            ELSE \E pattern \in include_patterns :
                     fnmatch(file_name, pattern) \/ fnmatch(file_path, pattern)
    IN  IF exclude_patterns # {} /\ include_file
        THEN ~ (\E pattern \in exclude_patterns :
                    fnmatch(file_path, pattern) \/ fnmatch(file_name, pattern))
        ELSE include_file

\* should_include_file: include patterns are matched against the file name,
\* exclude patterns against the file path.
should_include_file(file_path, file_name) ==
    LET include_file ==
            IF include_patterns = {} THEN TRUE
            ELSE \E pattern \in include_patterns : fnmatch(file_name, pattern)
    IN  IF exclude_patterns # {} /\ include_file
        THEN ~ (\E pattern \in exclude_patterns : fnmatch(file_path, pattern))
        ELSE include_file

\* dir_excluded with the exclude patterns matched against the directory name
dir_excluded_byName(item_path) ==
    /\ exclude_patterns # {}
    /\ \E pat \in exclude_patterns : fnmatch(basename(item_path), pat)

\* line 363: a listed directory is skipped when its path matches an exclude
\* pattern
dir_excluded(item_path) ==
    /\ exclude_patterns # {}
    /\ \E pat \in exclude_patterns : fnmatch(item_path, pat)

\* lines 313-320: the key a listed entry gets in files
rel_path_of(item_path) ==
    IF use_relative_paths /\ specific_path # EmptyStr
    THEN IF startswith(item_path, specific_path)
         THEN lstrip_slash(SubSeq(item_path, Len(specific_path) + 1, Len(item_path)))
         ELSE item_path
    ELSE item_path

\* files[key] = content
Put(f, key, content) ==
    [k \in DOMAIN f \cup {key} |-> IF k = key THEN content ELSE f[k]]

\* ------------------------------------------------------------ clone walks

\* Whether a working-tree path lies under root_dir
under(path, root) ==
    root = EmptyStr \/ startswith(path, root \o << "/" >>)

\* os.path.relpath(abs_path, root_dir) for a path under root_dir
relpath(path, root) ==
    IF root = EmptyStr THEN path
    ELSE SubSeq(path, Len(root) + 2, Len(path))

RECURSIVE ssh_walk(_, _, _)
\* lines 115-143: the size check comes first, then the pattern filter
ssh_walk(i, f, sk) ==
    IF i > Len(WorkTree) THEN [files |-> f, skipped_files |-> sk]
    ELSE LET e == WorkTree[i]
             rel_path == e.path
         IN  IF e.size > max_file_size
             THEN ssh_walk(i + 1, f, Append(sk, << rel_path, e.size >>))
             ELSE IF ~ should_include_file(rel_path, basename(rel_path))
                  THEN ssh_walk(i + 1, f, sk)
                  ELSE ssh_walk(i + 1, Put(f, rel_path, Content(e.path)), sk)

RECURSIVE fallback_walk(_, _, _)
\* lines 412-434: the pattern filter comes first, then the size check; the
\* walk starts at specific_path only when use_relative_paths is set
fallback_walk(i, f, sk) ==
    IF i > Len(WorkTree) THEN [files |-> f, skipped_files |-> sk]
    ELSE LET e == WorkTree[i]
             root_dir == IF use_relative_paths THEN specific_path ELSE EmptyStr
             rel_path == IF use_relative_paths THEN relpath(e.path, root_dir) ELSE e.path
         IN  IF ~ under(e.path, root_dir)
             THEN fallback_walk(i + 1, f, sk)
             ELSE IF ~ should_include_file(rel_path, basename(e.path))
                  THEN fallback_walk(i + 1, f, sk)
                  ELSE IF e.size > max_file_size
                       THEN fallback_walk(i + 1, f, Append(sk, << rel_path, e.size >>))
                       ELSE fallback_walk(i + 1, Put(f, rel_path, Content(e.path)), sk)

\* ---------------------------------------------------------------- results

\* lines 145-156 and 436-447
Stats(f, sk, base_path, src) ==
    [downloaded_count |-> Cardinality(DOMAIN f),
     skipped_count |-> Len(sk),
     skipped_files |-> sk,
     base_path |-> base_path,
     include_patterns |-> include_patterns,
     exclude_patterns |-> exclude_patterns,
     source |-> src]

Returned(f, stats) == [files |-> f, stats |-> stats]

Raised(exception) == [raised |-> exception]

Return(r) ==
    /\ pc' = "done"
    /\ result' = r

\* ------------------------------------------------------------ URL resolver

\* is_ssh_url looking at the git@ prefix only
is_ssh_url_prefixOnly == repo_url.form = "ssh"

\* line 96
is_ssh_url == repo_url.form = "ssh" \/ repo_url.dotgit

\* line 160
path_parts == split_slash(strip_slash(repo_url.path))

\* lines 98-100
SshUnavailable ==
    /\ pc = "start"
    /\ is_ssh_url
    /\ ~ GIT_AVAILABLE
    /\ Return(Returned(EmptyFiles,
                       [error |-> "GitPython not installed. Cannot clone SSH URLs."]))
    /\ UNCHANGED << inputs, aside, git_op, precheck, rest, cache_exists, ref, specific_path, walker, requested, listed,
                    rl, responses, all200 >>

\* cache_dir of line 397, for owner o and repository r
cache_dir == "/tmp/crawl_github_cache/o_r"

\* The names tempfile.mkdtemp can give a new directory of gettempdir().
MkdtempNames == { "/tmp/tmpa", "/tmp/tmpb" }

\* line 103, entering the with block: the directory is made
TemporaryDirectory(name) == [name |-> name, exists |-> TRUE]

\* leaving the with block without removing the directory
cleanup_keep(d) == d

\* line 103, leaving the with block (by return or by exception): the
\* directory is removed
cleanup(d) == [d EXCEPT !.exists = FALSE]

\* lines 102-156: the clone into a temporary directory fails or succeeds;
\* a successful clone is walked and the result returned; either way the
\* with block is left and the directory removed
SshClone ==
    /\ pc = "start"
    /\ is_ssh_url
    /\ GIT_AVAILABLE
    /\ \E tmpdirname \in MkdtempNames :
         tmpdir' = cleanup(TemporaryDirectory(tmpdirname))
    /\ \E cloned \in BOOLEAN :
         IF ~ cloned
         THEN /\ Return(Returned(EmptyFiles, [error |-> "clone failed"]))
              /\ UNCHANGED << files, skipped_files >>
         ELSE LET w == ssh_walk(1, EmptyFiles, << >>)
              IN  /\ files' = w.files
                  /\ skipped_files' = w.skipped_files
                  /\ Return(Returned(w.files,
                                     Stats(w.files, w.skipped_files, None, "ssh_clone")))
    /\ UNCHANGED << inputs, aside, git_op, precheck, http, branch_names, caught, notfound, prev,
                    cache_exists, ref, specific_path, stack, cur,
                    contents_list, requested, listed, rl, responses, all200 >>

\* lines 162-163
InvalidUrl ==
    /\ pc = "start"
    /\ ~ is_ssh_url
    /\ Len(path_parts) < 2
    /\ Return(Raised("ValueError"))
    /\ UNCHANGED << inputs, aside, git_op, precheck, rest, cache_exists, ref, specific_path, walker, requested, listed,
                    rl, responses, all200 >>

\* line 219
has_tree == Len(path_parts) > 2 /\ path_parts[3] = << "t", "r", "e", "e" >>

\* line 220: join_parts(i), i counted from 0
join_parts(i) == join_slash(SubSeq(path_parts, i + 1, Len(path_parts)))

\* lines 233-237: the first branch name the relevant path starts with
first_match(names, relevant_path) ==
    LET hits == { i \in 1..Len(names) : startswith(relevant_path, names[i]) }
    IN  IF hits = {} THEN None
        ELSE names[CHOOSE i \in hits : \A j \in hits : i <= j]

\* lines 251-252
path_after(r) ==
    LET part_index == IF \E i \in 1..Len(r) : r[i] = "/" THEN 5 ELSE 4
    IN  IF part_index < Len(path_parts) THEN join_parts(part_index) ELSE EmptyStr

\* lines 253-257: no tree segment, the host decides the default branch
ResolveDefault ==
    /\ pc = "start"
    /\ ~ is_ssh_url
    /\ Len(path_parts) >= 2
    /\ ~ has_tree
    /\ ref' = None
    /\ specific_path' = EmptyStr
    /\ pc' = "precheck"
    /\ UNCHANGED << inputs, aside, git_op, precheck, rest, cache_exists, walker, result, requested, listed, rl,
                    responses, all200 >>

\* lines 219-252: the branch list is fetched and the ref resolved
ResolveTree ==
    /\ pc = "start"
    /\ ~ is_ssh_url
    /\ Len(path_parts) >= 2
    /\ has_tree
    /\ \E branches \in BranchLists, tree_ok \in BOOLEAN :
         /\ branch_names' = branches
         /\ LET matched == first_match(branches, join_parts(3))
                r == IF matched # None THEN matched
                     ELSE IF tree_ok THEN path_parts[4] ELSE None
            IN  IF Len(branches) = 0
                THEN /\ Return(Returned(EmptyFiles, [error |-> "Failed to fetch branches"]))
                     /\ UNCHANGED << ref, specific_path >>
                ELSE IF r = None
                THEN /\ Return(Returned(EmptyFiles, [error |-> "Invalid path in repository"]))
                     /\ UNCHANGED << ref, specific_path >>
                ELSE /\ ref' = r
                     /\ specific_path' = path_after(r)
                     /\ pc' = "precheck"
                     /\ UNCHANGED result
    /\ http' = TRUE
    /\ UNCHANGED << inputs, aside, git_op, precheck, tmpdir, caught, notfound, prev, cache_exists,
                    walker, requested, listed, rl, responses, all200 >>

\* lines 193 and 214: session.get raises outside the try block
ResolveRaises ==
    /\ pc = "start"
    /\ ~ is_ssh_url
    /\ Len(path_parts) >= 2
    /\ has_tree
    /\ Return(Raised("RequestException"))
    /\ http' = TRUE
    /\ UNCHANGED << inputs, aside, git_op, precheck, tmpdir, branch_names, caught, notfound, prev,
                    cache_exists, ref, specific_path, walker, requested, listed,
                    rl, responses, all200 >>

\* ---------------------------------------------------------------- pre-check

\* The blob counts the recursive tree listing can report.
BlobCounts == { Cardinality(RepoFiles), FileThreshold, FileThreshold + 1 }

\* The statuses GET /repos/{owner}/{repo} can answer with.
MetaStatuses == { 200, 404 }

\* exceeds_threshold off by one
exceeds_threshold_late(n) == n > FileThreshold + 1

\* line 378
exceeds_threshold(n) == n > FileThreshold

\* lines 371-372: the repository is asked for
PreCheck ==
    /\ pc = "precheck"
    /\ \E status \in MetaStatuses : meta_resp' = status
    /\ pc' = "meta"
    /\ http' = TRUE
    /\ UNCHANGED << inputs, aside, git_op, total_files, tmpdir, branch_names, caught, notfound, prev,
                    cache_exists, ref, specific_path, walker, result, requested,
                    listed, rl, responses, all200 >>

\* lines 373-377: the repository answered 200 with its default branch, the
\* recursive tree of that branch is asked for and its blobs are counted
PreCheckTree ==
    /\ pc = "meta"
    /\ meta_resp = 200
    /\ \E tree_ok \in BOOLEAN, n \in BlobCounts :
         total_files' = IF tree_ok THEN n ELSE Unbound
    /\ pc' = "counted"
    /\ UNCHANGED << inputs, aside, git_op, meta_resp, rest, cache_exists, ref, specific_path,
                    walker, result, requested, listed, rl, responses, all200 >>

\* lines 378-380 and 386: more than FileThreshold blobs raise RuntimeError,
\* which the except clause catches. The locals of the pre-check are not
\* read again and are forgotten here.
ThresholdExceeded ==
    /\ pc = "counted"
    /\ total_files # Unbound
    /\ exceeds_threshold(total_files)
    /\ caught' = "RuntimeError"
    /\ pc' = "fallback"
    /\ meta_resp' = Unbound
    /\ total_files' = Unbound
    /\ UNCHANGED << inputs, aside, git_op, http, tmpdir, branch_names, notfound, prev,
                    cache_exists, ref, specific_path, walker, result, requested,
                    listed, rl, responses, all200 >>

\* lines 384 and 265: the pre-check raised nothing (no 200 for the
\* repository or its tree, or a count within the threshold):
\* fetch_contents(specific_path) starts with its seed on the stack
StartFetch ==
    /\ \/ pc = "meta" /\ meta_resp # 200
       \/ pc = "counted" /\ ~ (total_files # Unbound /\ exceeds_threshold(total_files))
    /\ stack' = << [path |-> specific_path, depth |-> 0] >>
    /\ pc' = "walk"
    /\ meta_resp' = Unbound
    /\ total_files' = Unbound
    /\ UNCHANGED << inputs, aside, git_op, rest, cache_exists, ref, specific_path, files,
                    skipped_files, cur, contents_list, result, requested, listed,
                    rl, responses, all200 >>

\* lines 371, 375: session.get raises (retries exhausted, network error)
PreCheckFails ==
    /\ pc \in { "precheck", "meta" }
    /\ meta_resp # 404
    /\ pc' = "fallback"
    /\ caught' = "RequestException"
    /\ http' = TRUE
    /\ all200' = FALSE
    /\ meta_resp' = Unbound
    /\ total_files' = Unbound
    /\ UNCHANGED << inputs, aside, git_op, tmpdir, branch_names, notfound, prev, cache_exists,
                    ref, specific_path, walker, result, requested, listed, rl,
                    responses >>

\* ------------------------------------------------------ remote tree walker

\* exceeds_depth off by one
exceeds_depth_late(depth) == depth > MAX_TRAVERSAL_DEPTH + 1

\* line 268
exceeds_depth(depth) == depth > MAX_TRAVERSAL_DEPTH

child_item_sameDepth(item_path, depth) == [path |-> item_path, depth |-> depth]

\* line 365: what a listed directory is pushed as
child_item(item_path, depth) == [path |-> item_path, depth |-> depth + 1]

\* retry_item charging the retry to the depth budget
retry_item_deeper(current_path, depth) == [path |-> current_path, depth |-> depth + 1]

\* line 281: what a rate-limited item is pushed back as
retry_item(current_path, depth) == [path |-> current_path, depth |-> depth]

\* line 278: wait_time, given reset_time - time.time()
wait_time_for(reset_in) == (IF reset_in > 0 THEN reset_in ELSE 0) + 1

\* lines 328 and 336
over_limit(size) == size > max_file_size

\* the length of the base64 text of n bytes
encoded_len(n) == 4 * ((n + 2) \div 3)

\* line 350: len(content) * 0.75 > max_file_size
encoded_over_limit(len) == 3 * len > 4 * max_file_size

\* line 351: int(len(content) * 0.75)
estimated_size(len) == (3 * len) \div 4

Pop(s) == SubSeq(s, 1, Len(s) - 1)

\* lines 267-273: pop an item; skip it when it is too deep, else request
\* its contents
WalkPop ==
    /\ pc = "walk"
    /\ stack # << >>
    /\ LET item == stack[Len(stack)]
       IN  /\ stack' = Pop(stack)
           /\ cur' = item
           /\ IF exceeds_depth(item.depth)
              THEN /\ pc' = "walk"
                   /\ UNCHANGED requested
              ELSE /\ pc' = "request"
                   /\ requested' = requested \cup {item.path}
    /\ UNCHANGED << inputs, aside, git_op, precheck, rest, cache_exists, ref, specific_path, files, skipped_files,
                    contents_list, result, listed, rl, responses, all200 >>

\* lines 276-282: 403 "rate limit exceeded": sleep, push the item back
RateLimited ==
    /\ pc = "request"
    /\ \E reset_in \in -1..MaxResetAhead :
         /\ rl' = [item |-> cur, reset_in |-> reset_in,
                   wait_time |-> wait_time_for(reset_in)]
         /\ stack' = Append(stack, retry_item(cur.path, cur.depth))
    /\ pc' = "walk"
    /\ all200' = FALSE
    /\ notfound' = NoNotFound
    /\ UNCHANGED << inputs, aside, git_op, precheck, http, tmpdir, branch_names, caught, prev,
                    cache_exists, ref, specific_path, files, skipped_files,
                    cur, contents_list, result, requested, listed, responses >>

\* the branch name 'main', one letter long here
main == << "m" >>

\* lines 285-293: the message a 404 is logged with
not_found_message(token, current_path, r) ==
    IF ~ token THEN "private"
    ELSE IF current_path = EmptyStr /\ r = main THEN "try_branch"
    ELSE "path_not_found"

\* NotFound giving the crawl up for the clone fallback
NotFound_escalates ==
    /\ pc = "request"
    /\ pc' = "fallback"
    /\ rl' = NoWait
    /\ all200' = FALSE
    /\ \E token \in BOOLEAN :
         notfound' = [item |-> cur, message |-> not_found_message(token, cur.path, ref)]
    /\ UNCHANGED << inputs, aside, git_op, precheck, http, tmpdir, branch_names, caught, prev,
                    cache_exists, ref, specific_path, walker, result,
                    requested, listed, responses >>

\* lines 284-294: 404, a message is logged (which one depends on whether a
\* token was found, on the path and on the ref) and the item is dropped
NotFound ==
    /\ pc = "request"
    /\ pc' = "walk"
    /\ rl' = NoWait
    /\ all200' = FALSE
    /\ \E token \in BOOLEAN :
         notfound' = [item |-> cur, message |-> not_found_message(token, cur.path, ref)]
    /\ UNCHANGED << inputs, aside, git_op, precheck, http, tmpdir, branch_names, caught, prev,
                    cache_exists, ref, specific_path, walker, result,
                    requested, listed, responses >>

\* lines 296-306: another status, or a body that is no JSON: the item is
\* dropped
OtherError ==
    /\ pc = "request"
    /\ pc' = "walk"
    /\ rl' = NoWait
    /\ all200' = FALSE
    /\ notfound' = NoNotFound
    /\ UNCHANGED << inputs, aside, git_op, precheck, http, tmpdir, branch_names, caught, prev,
                    cache_exists, ref, specific_path, walker, result,
                    requested, listed, responses >>

\* line 273: session.get raises (retries exhausted, network error)
RequestFails ==
    /\ pc = "request"
    /\ pc' = "fallback"
    /\ caught' = "RequestException"
    /\ rl' = NoWait
    /\ all200' = FALSE
    /\ notfound' = NoNotFound
    /\ UNCHANGED << inputs, aside, git_op, precheck, http, tmpdir, branch_names, prev,
                    cache_exists, ref, specific_path, walker, result,
                    requested, listed, responses >>

\* lines 299-303: 200, the entries of the answer are processed next
Listed ==
    /\ pc = "request"
    /\ PathExists(cur.path)
    /\ contents_list' = Listing(cur.path, selfListing)
    /\ pc' = IF contents_list' = << >> THEN "walk" ELSE "items"
    /\ rl' = NoWait
    /\ notfound' = NoNotFound
    /\ UNCHANGED << inputs, aside, git_op, precheck, http, tmpdir, branch_names, caught, prev,
                    cache_exists, ref, specific_path, files, skipped_files,
                    stack, cur, result, requested, listed, responses, all200 >>

\* the entry the for loop of line 308 is at
item == Head(contents_list)

\* the loop moves on to the next entry, or the while loop to the next item
NextEntry ==
    /\ listed' = listed \cup {item.path}
    /\ contents_list' = Tail(contents_list)
    /\ pc' = IF Tail(contents_list) = << >> THEN "walk" ELSE "items"

AtFile == pc = "items" /\ item.type = "file"

Accepted ==
    /\ AtFile
    /\ should_include_file(rel_path_of(item.path), basename(item.path))
    /\ ~ over_limit(item.size)

\* lines 324-326: the filter rejects the file
SkipByPattern ==
    /\ AtFile
    /\ ~ should_include_file(rel_path_of(item.path), basename(item.path))
    /\ NextEntry
    /\ UNCHANGED << inputs, aside, git_op, precheck, rest, cache_exists, ref, specific_path, files, skipped_files,
                    stack, cur, result, requested, rl, responses, all200 >>

\* lines 327-331: the listed size is over the limit
SkipBySize ==
    /\ AtFile
    /\ should_include_file(rel_path_of(item.path), basename(item.path))
    /\ over_limit(item.size)
    /\ skipped_files' = Append(skipped_files, << item.path, item.size >>)
    /\ NextEntry
    /\ UNCHANGED << inputs, aside, git_op, precheck, rest, cache_exists, ref, specific_path, files, stack, cur,
                    result, requested, rl, responses, all200 >>

\* The answers a GET of download_url can give: the status (200, or the
\* 403 of an exceeded rate limit: line 340 asks only whether it is 200) and
\* the Content-Length, which is the listed size or, the listing being
\* stale, more than the limit.
DownloadAnswers ==
    { [via |-> "download_url", status |-> st, content_length |-> n] :
        st \in {200, 403}, n \in {item.size, max_file_size + 1} }

\* lines 333-344
Download ==
    /\ Accepted
    /\ item.download_url
    /\ \E resp \in DownloadAnswers :
         /\ responses' = Put(responses, item.path, resp)
         /\ all200' = (all200 /\ resp.status = 200)
         /\ IF over_limit(resp.content_length)
            THEN /\ skipped_files' =
                        Append(skipped_files, << item.path, resp.content_length >>)
                 /\ UNCHANGED files
            ELSE IF resp.status = 200
            THEN /\ files' = Put(files, rel_path_of(item.path), Content(item.path))
                 /\ UNCHANGED skipped_files
            ELSE UNCHANGED << files, skipped_files >>
    /\ NextEntry
    /\ UNCHANGED << inputs, aside, git_op, precheck, rest, cache_exists, ref, specific_path, stack, cur, result,
                    requested, rl >>

\* The answers a GET of the entry's url (the content endpoint) can give:
\* base64 text of the listed size or of more than the limit, another
\* encoding, or no 200 but the 403 of an exceeded rate limit.
ContentAnswers ==
    { [via |-> "url", status |-> 200, encoding |-> "base64",
       content_len |-> encoded_len(n)] : n \in {item.size, max_file_size + 1} }
    \cup { [via |-> "url", status |-> 200, encoding |-> "none", content_len |-> 0],
           [via |-> "url", status |-> 403, encoding |-> "none", content_len |-> 0] }

\* lines 346-360
FetchContent ==
    /\ Accepted
    /\ ~ item.download_url
    /\ \E resp \in ContentAnswers :
         /\ responses' = Put(responses, item.path, resp)
         /\ all200' = (all200 /\ resp.status = 200)
         /\ IF resp.status = 200 /\ resp.encoding = "base64"
            THEN IF encoded_over_limit(resp.content_len)
                 THEN /\ skipped_files' =
                             Append(skipped_files,
                                    << item.path, estimated_size(resp.content_len) >>)
                      /\ UNCHANGED files
                 ELSE /\ files' = Put(files, rel_path_of(item.path), Content(item.path))
                      /\ UNCHANGED skipped_files
            ELSE UNCHANGED << files, skipped_files >>
    /\ NextEntry
    /\ UNCHANGED << inputs, aside, git_op, precheck, rest, cache_exists, ref, specific_path, stack, cur, result,
                    requested, rl >>

\* lines 334 and 346: session.get raises (retries exhausted, network error)
DownloadFails ==
    /\ Accepted
    /\ pc' = "fallback"
    /\ caught' = "RequestException"
    /\ all200' = FALSE
    /\ listed' = listed \cup {item.path}
    /\ UNCHANGED << inputs, aside, git_op, precheck, http, tmpdir, branch_names, notfound, prev,
                    cache_exists, ref, specific_path, walker, result,
                    requested, rl, responses >>

AtDir == pc = "items" /\ item.type = "dir"

\* lines 363-364: an excluded directory is not pushed
PruneDir ==
    /\ AtDir
    /\ dir_excluded(item.path)
    /\ NextEntry
    /\ UNCHANGED << inputs, aside, git_op, precheck, rest, cache_exists, ref, specific_path, files, skipped_files,
                    stack, cur, result, requested, rl, responses, all200 >>

\* line 365
PushDir ==
    /\ AtDir
    /\ ~ dir_excluded(item.path)
    /\ stack' = Append(stack, child_item(item.path, cur.depth))
    /\ NextEntry
    /\ UNCHANGED << inputs, aside, git_op, precheck, rest, cache_exists, ref, specific_path, files, skipped_files,
                    cur, result, requested, rl, responses, all200 >>

\* lines 385 and 436-447: the stack is empty, the API results are returned
WalkDone ==
    /\ pc = "walk"
    /\ stack = << >>
    /\ Return(Returned(files,
                       Stats(files, skipped_files,
                             IF use_relative_paths THEN specific_path ELSE None,
                             "api")))
    /\ UNCHANGED << inputs, aside, git_op, precheck, rest, cache_exists, ref, specific_path, walker, requested, listed,
                    rl, responses, all200 >>

\* ----------------------------------------------------------- clone fallback

\* FallbackUnavailable dropping what the API path gathered
FallbackUnavailable_empty ==
    /\ pc = "fallback"
    /\ ~ GIT_AVAILABLE
    /\ Return(Returned(EmptyFiles,
                       [error |-> "API crawling failed and GitPython not available for fallback",
                        source |-> "api_partial"]))
    /\ UNCHANGED << inputs, aside, git_op, precheck, rest, cache_exists, ref, specific_path, walker, requested, listed,
                    rl, responses, all200 >>

\* lines 388-391
FallbackUnavailable ==
    /\ pc = "fallback"
    /\ ~ GIT_AVAILABLE
    /\ Return(Returned(files,
                       [error |-> "API crawling failed and GitPython not available for fallback",
                        source |-> "api_partial"]))
    /\ UNCHANGED << inputs, aside, git_op, precheck, rest, cache_exists, ref, specific_path, walker, requested, listed,
                    rl, responses, all200 >>

isdir_never(d) == FALSE

\* line 399: os.path.isdir(cache_dir)
isdir(d) == d = cache_dir /\ cache_exists

\* lines 399-405: clone_from when there is no cache directory, pull otherwise
git_operation == IF ~ isdir(cache_dir) THEN "clone" ELSE "pull"

\* lines 398-408: the clone (no cache directory) or the pull (a cache
\* directory) raises
FallbackCloneFails ==
    /\ pc = "fallback"
    /\ GIT_AVAILABLE
    /\ git_op' = git_operation
    /\ Return(Returned(files, [error |-> "clone failed", source |-> "git_clone"]))
    /\ UNCHANGED << inputs, aside, precheck, rest, cache_exists, ref, specific_path, walker, requested, listed,
                    rl, responses, all200 >>

\* lines 398-447: the clone or the pull succeeds; files and skipped_files
\* are cleared and filled from the walk of the cache directory
FallbackClone_merges ==
    /\ pc = "fallback"
    /\ GIT_AVAILABLE
    /\ git_op' = git_operation
    /\ cache_exists' = TRUE
    /\ LET w == fallback_walk(1, files, skipped_files)
       IN  /\ files' = w.files
           /\ skipped_files' = w.skipped_files
           /\ Return(Returned(w.files,
                              Stats(w.files, w.skipped_files,
                                    IF use_relative_paths THEN specific_path ELSE None,
                                    "git_clone")))
    /\ UNCHANGED << inputs, aside, precheck, rest, ref, specific_path, stack, cur, contents_list,
                    requested, listed, rl, responses, all200 >>

FallbackClone ==
    /\ pc = "fallback"
    /\ GIT_AVAILABLE
    /\ git_op' = git_operation
    /\ cache_exists' = TRUE
    /\ LET w == fallback_walk(1, EmptyFiles, << >>)
       IN  /\ files' = w.files
           /\ skipped_files' = w.skipped_files
           /\ Return(Returned(w.files,
                              Stats(w.files, w.skipped_files,
                                    IF use_relative_paths THEN specific_path ELSE None,
                                    "git_clone")))
    /\ UNCHANGED << inputs, aside, precheck, rest, ref, specific_path, stack, cur, contents_list,
                    requested, listed, rl, responses, all200 >>

\* ------------------------------------------------------------ specification

Next ==
    \/ SshUnavailable
    \/ SshClone
    \/ InvalidUrl
    \/ ResolveDefault
    \/ ResolveTree
    \/ ResolveRaises
    \/ PreCheck
    \/ PreCheckTree
    \/ ThresholdExceeded
    \/ StartFetch
    \/ PreCheckFails
    \/ WalkPop
    \/ RateLimited
    \/ NotFound
    \/ OtherError
    \/ RequestFails
    \/ Listed
    \/ SkipByPattern
    \/ SkipBySize
    \/ Download
    \/ FetchContent
    \/ DownloadFails
    \/ PruneDir
    \/ PushDir
    \/ WalkDone
    \/ FallbackUnavailable
    \/ FallbackCloneFails
    \/ FallbackClone

Spec == Init /\ [][Next]_vars

\* ------------------------------------------------------------------ claims

\* What the claims speak of, stated apart from the walker's own operators.

IncludeHitsName(path) == \E p \in include_patterns : fnmatch(basename(path), p)
IncludeHitsPath(path) == \E p \in include_patterns : fnmatch(path, p)
ExcludeHitsName(path) == \E p \in exclude_patterns : fnmatch(basename(path), p)
ExcludeHitsPath(path) == \E p \in exclude_patterns : fnmatch(path, p)

\* the directories strictly between the requested subpath and a path
DirsAbove(path) ==
    LET parts == split_slash(path)
    IN  { d \in { join_slash(SubSeq(parts, 1, k)) : k \in 1..(Len(parts) - 1) } :
            under(d, specific_path) }

\* a file of the repository the API walk reaches from the requested subpath
Reached(f) ==
    /\ under(f.path, specific_path)
    /\ \A d \in DirsAbove(f.path) : ~ ExcludeHitsPath(d)

ReturnedResult == pc = "done" /\ "files" \in DOMAIN result

HasSource(src) ==
    /\ ReturnedResult
    /\ "source" \in DOMAIN result.stats
    /\ result.stats.source = src

ApiResult == HasSource("api")

SkippedPaths == { skipped_files[i][1] : i \in 1..Len(skipped_files) }

\* the answer to a file's download let the walker keep the content
GoodAnswer(resp) ==
    IF resp.via = "download_url"
    THEN resp.status = 200 /\ resp.content_length <= max_file_size
    ELSE /\ resp.status = 200
         /\ resp.encoding = "base64"
         /\ 3 * resp.content_len <= 4 * max_file_size

\* C1 as stated (P1, inclusion half): in an API crawl whose listings and
\* downloads all answered 200, every reached file under max_file_size that
\* matches an include pattern (by path or by name, or no include pattern is
\* given) and no exclude pattern is a key of the returned files.
C1_InclusionAsStated ==
    (ApiResult /\ all200) =>
        \A f \in RepoFiles :
            ( /\ Reached(f)
              /\ f.size < max_file_size
              /\ (include_patterns = {} \/ IncludeHitsName(f.path)
                    \/ IncludeHitsPath(rel_path_of(f.path)))
              /\ ~ ExcludeHitsName(f.path)
              /\ ~ ExcludeHitsPath(rel_path_of(f.path)) )
            => rel_path_of(f.path) \in DOMAIN result.files

\* C1 amended: in an API crawl whose listings and downloads all answered
\* 200, every reached file under max_file_size whose name matches an
\* include pattern (or no include pattern is given) and whose key path
\* matches no exclude pattern is a key of the returned files, unless the
\* answer to its download carried a Content-Length over the limit, or (for
\* the content endpoint) content that is not base64 or whose estimated size
\* is over the limit.
C1_Inclusion ==
    (ApiResult /\ all200) =>
        \A f \in RepoFiles :
            ( /\ Reached(f)
              /\ f.size < max_file_size
              /\ (include_patterns = {} \/ IncludeHitsName(f.path))
              /\ ~ ExcludeHitsPath(rel_path_of(f.path)) )
            => /\ f.path \in DOMAIN responses
               /\ GoodAnswer(responses[f.path])
                    => rel_path_of(f.path) \in DOMAIN result.files

\* C1 witness: an API crawl answered with 200s returns a file that passed
\* a non-empty include set and a non-empty exclude set.
C1_Witness ==
    /\ ApiResult
    /\ all200
    /\ include_patterns # {}
    /\ exclude_patterns # {}
    /\ \E f \in RepoFiles :
         /\ Reached(f)
         /\ f.size < max_file_size
         /\ IncludeHitsName(f.path)
         /\ ~ ExcludeHitsPath(rel_path_of(f.path))
         /\ GoodAnswer(responses[f.path])
         /\ rel_path_of(f.path) \in DOMAIN result.files

\* files holds what the API walk gathered (no clone walk replaced it)
FilesFromApi ==
    \/ pc # "done"
    \/ ~ HasSource("git_clone")
    \/ "error" \in DOMAIN result.stats

\* C2 as stated (P1, rejection half): every file the walker listed and did
\* not accept (the filter rejects it, or its size is over max_file_size) is
\* recorded in skipped_files and is not a key of files.
C2_RejectionAsStated ==
    FilesFromApi =>
        \A f \in RepoFiles :
            ( /\ f.path \in listed
              /\ \/ ~ should_include_file(rel_path_of(f.path), basename(f.path))
                 \/ f.size > max_file_size )
            => /\ f.path \in SkippedPaths
               /\ rel_path_of(f.path) \notin DOMAIN files

\* the paths the pattern filter is asked about, on any branch
FilterPaths ==
    { e.path : e \in RepoFiles } \cup { rel_path_of(e.path) : e \in RepoFiles }
    \cup { WorkTree[i].path : i \in 1..Len(WorkTree) }
    \cup { relpath(WorkTree[i].path, specific_path) :
              i \in { j \in 1..Len(WorkTree) : under(WorkTree[j].path, specific_path) } }

ExcludedListedDirs ==
    { d \in listed : (\E e \in RepoDirs : e.path = d) /\ ExcludeHitsPath(d) }

\* the repository path a key of files was filled from
Origin(k) == files[k][2]

C5_DepthBound ==
    /\ [](pc = "request" => cur.depth <= MAX_TRAVERSAL_DEPTH)
    /\ [][(pc = "items" /\ Len(stack') > Len(stack))
            => stack'[Len(stack')] = [path |-> item.path, depth |-> cur.depth + 1]]_vars

\* C5 witness: the walker popped an item deeper than the bound and skipped
\* it without a request.
C5_Witness ==
    /\ pc = "walk"
    /\ cur.depth > MAX_TRAVERSAL_DEPTH
    /\ cur.path \in requested

\* C6 (P6, rate-limit resume): after a rate-limit answer the walker has
\* waited at least X-RateLimit-Reset minus now, and the next contents
\* request is for the same path at the same depth; the answer changes
\* neither files nor skipped_files, leaves the rest of the stack as it was
\* and does not start the clone fallback, however many of them follow one
\* another.
C6_RateLimitResume ==
    /\ [](rl # NoWait => rl.wait_time >= rl.reset_in)
    /\ []((pc = "request" /\ rl # NoWait) => cur = rl.item)
    /\ [][(pc = "request" /\ rl' # NoWait)
            => /\ files' = files
               /\ skipped_files' = skipped_files
               /\ Pop(stack') = stack
               /\ stack'[Len(stack')] = cur
               /\ pc' = "walk"]_vars

\* C6 witness: a directory below the seed is requested again after a wait
\* for a reset that lay MaxResetAhead seconds ahead, files gathered before
\* the wait being kept.
C6_Witness ==
    /\ pc = "request"
    /\ rl # NoWait
    /\ rl.reset_in = MaxResetAhead
    /\ rl.wait_time > MaxResetAhead
    /\ cur = rl.item
    /\ cur.depth > 0
    /\ DOMAIN files # {}

\* C7 (P7, fallback integrity): when the API path has failed, the result
\* has stats.source "git_clone" if the clone tool is available; if it is
\* not, stats.error is set and files holds exactly what the API path had
\* gathered.
C7_FallbackIntegrity ==
    [][(pc = "fallback" /\ pc' = "done")
        => /\ "files" \in DOMAIN result'
           /\ IF GIT_AVAILABLE
              THEN /\ "source" \in DOMAIN result'.stats
                   /\ result'.stats.source = "git_clone"
              ELSE /\ "error" \in DOMAIN result'.stats
                   /\ result'.files = files]_vars

\* C7 witness: with no clone tool, a failed API crawl returned the files it
\* had gathered together with an error.
C7_Witness ==
    /\ ReturnedResult
    /\ ~ GIT_AVAILABLE
    /\ listed # {}
    /\ "error" \in DOMAIN result.stats
    /\ DOMAIN result.files # {}

\* C8 as stated: an invocation never raises; a URL with fewer than two
\* path segments is answered with empty files and stats.error.
C8_NeverRaises ==
    pc = "done" =>
        /\ "raised" \notin DOMAIN result
        /\ (~ is_ssh_url /\ Len(path_parts) < 2)
             => /\ result.files = EmptyFiles
                /\ "error" \in DOMAIN result.stats

\* The fields of stats in the FetchResult shape.
StatsShape ==
    { "downloaded_count", "skipped_count", "skipped_files", "base_path",
      "include_patterns", "exclude_patterns", "source" }

\* C9 as stated: every returned result has stats in the FetchResult shape,
\* with stats.source one of "api", "git_clone", "ssh_clone".
C9_StatsShape ==
    ReturnedResult =>
        /\ StatsShape \subseteq DOMAIN result.stats
        /\ result.stats.source \in { "api", "git_clone", "ssh_clone" }

\* C10 as stated: no path is both a key of files and the path of an entry
\* of skipped_files, during a crawl and in the returned result.
C10_Disjoint ==
    /\ SkippedPaths \cap DOMAIN files = {}
    /\ (ReturnedResult /\ "skipped_files" \in DOMAIN result.stats)
         => \A i \in 1..Len(result.stats.skipped_files) :
                result.stats.skipped_files[i][1] \notin DOMAIN result.files

\* ------------------------------------------------------------ a second crawl

\* the entries the host lists under a requested path
ChildrenOf(path) == { f \in RepoEntries : dirname(f.path) = path }

\* the repository file a download answer is about
FileAt(path) == CHOOSE f \in RepoFiles : f.path = path

\* the answer to a download agrees with the repository: a 200 with the
\* file's size and base64 content, or the 403 of an exceeded rate limit
SteadyAnswer(path) ==
    LET resp == responses[path]
    IN  IF resp.via = "download_url"
        THEN resp.status \in {200, 403} /\ resp.content_length = FileAt(path).size
        ELSE \/ resp.status = 403
             \/ /\ resp.status = 200
                /\ resp.encoding = "base64"
                /\ resp.content_len = encoded_len(FileAt(path).size)

\* The crawl met nothing but 200 answers that agree with the repository and
\* rate-limit answers: every requested listing was processed in the end and
\* every download answer was steady.
Undisturbed ==
    /\ \A p \in requested : \A f \in ChildrenOf(p) : f.path \in listed
    /\ \A p \in DOMAIN responses : SteadyAnswer(p)

\* The caller makes the same request again (src/nodes.py calls
\* crawl_github_files once per run of the flow): the outcome of the first
\* crawl is kept, the file system stays as the first crawl left it.
CrawlAgain ==
    /\ pc = "done"
    /\ prev = NoPrev
    /\ prev' = [result |-> result,
                undisturbed |-> ("files" \in DOMAIN result /\ "source" \in DOMAIN result.stats
                                  /\ result.stats.source = "api" /\ Undisturbed),
                all200 |-> all200,
                git_op |-> git_op]
    /\ git_op' = NoOp
    /\ pc' = "start"
    /\ ref' = None
    /\ specific_path' = EmptyStr
    /\ files' = EmptyFiles
    /\ skipped_files' = << >>
    /\ stack' = << >>
    /\ cur' = NoItem
    /\ contents_list' = << >>
    /\ result' = NoResult
    /\ requested' = {}
    /\ listed' = {}
    /\ rl' = NoWait
    /\ responses' = EmptyFiles
    /\ all200' = TRUE
    /\ http' = FALSE
    /\ tmpdir' = NoTmpDir
    /\ branch_names' = NoBranches
    /\ caught' = NoException
    /\ notfound' = NoNotFound
    /\ UNCHANGED << inputs, aside, precheck, cache_exists >>

NextTwice ==
    \/ Next
    \/ CrawlAgain

\* the crawl of requests that name a ref
SpecRefs == InitRefs /\ [][Next]_vars

\* two crawls of one request
SpecTwice == InitTwice /\ [][NextTwice]_vars

\* ----------------------------------------------------------- further claims

\* the listed files whose key is not among the returned files
NotDownloaded ==
    { f \in RepoFiles : f.path \in listed /\ rel_path_of(f.path) \notin DOMAIN result.files }

\* C11 as stated (Scenario A, generalised): an API crawl of a tree URL with
\* a subpath and relative paths, answered with 200s that agree with the
\* repository, returns keys relative to the subpath, downloaded_count the
\* number of files downloaded, skipped_count the number of listed files
\* that were not downloaded (oversize or rejected by the patterns) and
\* base_path the subpath.
C11_ScenarioA ==
    (ApiResult /\ all200 /\ Undisturbed /\ use_relative_paths
       /\ specific_path # EmptyStr) =>
        /\ \A k \in DOMAIN result.files :
             \E f \in RepoFiles :
                /\ under(f.path, specific_path)
                /\ k = relpath(f.path, specific_path)
        /\ result.stats.downloaded_count = Cardinality(DOMAIN result.files)
        /\ result.stats.skipped_count = Cardinality(NotDownloaded)
        /\ result.stats.base_path = specific_path

\* C12 (Scenario C, proactive fallback): when the pre-check counts more
\* than 1000 blobs, the next step raises into the clone fallback; an
\* invocation that did so issues no contents request at all, and with the
\* clone tool available its result has stats.source "git_clone".
C12_ProactiveFallback ==
    /\ [][(pc = "counted" /\ total_files > FileThreshold)
            => (pc' = "fallback" /\ caught' = "RuntimeError")]_vars
    /\ [](caught = "RuntimeError"
            => /\ requested = {}
               /\ pc \in { "fallback", "done" }
               /\ (pc = "done" /\ GIT_AVAILABLE) => HasSource("git_clone"))

\* C12 witness: after a count over the threshold the clone was walked and
\* its files returned, no contents request having been issued.
C12_Witness ==
    /\ pc = "done"
    /\ caught = "RuntimeError"
    /\ requested = {}
    /\ HasSource("git_clone")
    /\ DOMAIN result.files # {}

\* C13 (Scenario B): a request whose URL starts with git@ or ends with
\* .git, made without the clone tool, returns empty files and the error
\* that names the missing GitPython, having issued no HTTP request and
\* made no temporary directory.
C13_SshUnavailable ==
    (pc = "done" /\ (repo_url.form = "ssh" \/ repo_url.dotgit) /\ ~ GIT_AVAILABLE) =>
        /\ ReturnedResult
        /\ result.files = EmptyFiles
        /\ "error" \in DOMAIN result.stats
        /\ result.stats.error = "GitPython not installed. Cannot clone SSH URLs."
        /\ ~ http
        /\ tmpdir = NoTmpDir

\* C13 witness: an https URL that ends with .git was answered so.
C13_Witness ==
    /\ pc = "done"
    /\ repo_url.form = "https"
    /\ repo_url.dotgit
    /\ ~ GIT_AVAILABLE
    /\ result.files = EmptyFiles
    /\ "error" \in DOMAIN result.stats

\* C14 as stated (P2, idempotence): two crawls of one request that were
\* both served by the API path and met nothing but 200 answers and
\* rate-limit answers return the same files (keys and contents).
C14_Idempotence ==
    ( /\ pc = "done"
      /\ prev # NoPrev
      /\ prev.undisturbed
      /\ ApiResult
      /\ Undisturbed )
    => result.files = prev.result.files

\* C15 as stated: after a 404 to GET /repos/{owner}/{repo} the invocation
\* ends at once with stats.error, no contents request being issued.
C15_RepoNotFound ==
    [][(pc = "meta" /\ meta_resp = 404)
        => /\ pc' = "done"
           /\ "stats" \in DOMAIN result'
           /\ "error" \in DOMAIN result'.stats
           /\ requested' = requested]_vars

\* C16 (SSH clone path, scoped resource): a temporary directory the SSH
\* path made does not exist once the invocation has moved on, whether the
\* clone failed, every file was rejected or files were returned; it is not
\* the cache directory, and the SSH path leaves the cache directory as it
\* was.
C16_TempDirRemoved ==
    /\ [](tmpdir # NoTmpDir => (~ tmpdir.exists /\ tmpdir.name # cache_dir))
    /\ [][(pc = "start" /\ (repo_url.form = "ssh" \/ repo_url.dotgit))
            => cache_exists' = cache_exists]_vars

\* C16 witness: the SSH path made its directory, the filter rejected every
\* file of the clone, and the directory is gone at the return.
C16_Witness ==
    /\ HasSource("ssh_clone")
    /\ tmpdir # NoTmpDir
    /\ ~ tmpdir.exists
    /\ include_patterns # {}
    /\ result.files = EmptyFiles

\* the branch names that are a prefix of the remaining path
PrefixNames(names, relevant_path) ==
    { names[i] : i \in { j \in 1..Len(names) : startswith(relevant_path, names[j]) } }

\* C17 as stated: for a tree URL, when some fetched branch name is a prefix
\* of the remaining path, the ref is the longest such name, whatever the
\* order of the branch list.
C17_LongestRef ==
    (pc # "start" /\ has_tree /\ ref # None /\ branch_names # NoBranches
       /\ PrefixNames(branch_names, join_parts(3)) # {})
    => /\ ref \in PrefixNames(branch_names, join_parts(3))
       /\ \A n \in PrefixNames(branch_names, join_parts(3)) : Len(n) <= Len(ref)

\* C18 as stated: an HTTP call that exhausts its retries sends the
\* invocation to the clone fallback, and no invocation ends by raising the
\* exhaustion to its caller.
C18_Escalation ==
    /\ caught = "RequestException" => pc \in { "fallback", "done" }
    /\ pc = "done" => ~ ("raised" \in DOMAIN result /\ result.raised = "RequestException")

\* C19 as stated: a file whose download was answered with the 403 of an
\* exceeded rate limit is fetched after the wait, so it is a key of the
\* files an API crawl returns.
C19_DownloadRateLimit ==
    ApiResult =>
        \A p \in DOMAIN responses :
            (responses[p].status = 403 /\ responses[p].via = "download_url"
               /\ responses[p].content_length <= max_file_size)
            => rel_path_of(p) \in DOMAIN result.files

\* the walker is inside fetch_contents
Walking == pc \in { "walk", "request", "items" }

\* C20: a 404 to a listing request, whichever of the three messages it is
\* logged with, drops the item and nothing else: files, skipped_files and
\* the rest of the stack stay as they were, the walker goes on with the
\* stack and the clone fallback is not started; the walker never loses a
\* key of files, and an API result returns the files gathered.
C20_NotFoundNonFatal ==
    /\ [][(pc = "request" /\ notfound' # NoNotFound)
            => /\ notfound'.message \in { "private", "try_branch", "path_not_found" }
               /\ files' = files
               /\ skipped_files' = skipped_files
               /\ stack' = stack
               /\ pc' = "walk"
               /\ caught' = NoException]_vars
    /\ [][(Walking /\ pc' \in { "walk", "request", "items", "done" })
            => \A k \in DOMAIN files : k \in DOMAIN files' /\ files'[k] = files[k]]_vars
    /\ [](ApiResult => result.files = files)

\* C20 witness: a 404 was answered for a directory while files held an
\* entry gathered before and another item was left on the stack.
C20_Witness ==
    /\ pc = "walk"
    /\ notfound # NoNotFound
    /\ notfound.item.depth > 0
    /\ DOMAIN files # {}
    /\ stack # << >>

\* ------------------------------------------------------- the retry layer

\* Every session.get goes through the HTTPAdapter mounted at lines 185-187
\* with the Retry of lines 179-184.

\* what one invocation holds, apart from the cache directory
crawl == << inputs, precheck, rest, pc, ref, specific_path, walker, result,
            requested, listed, rl, responses, all200, git_op >>

\* status_forcelist of line 182
status_forcelist == { 429, 500, 502, 503, 504 }

\* Retry.RETRY_AFTER_STATUS_CODES: the statuses a Retry-After header makes
\* retryable (respect_retry_after_header is left at its default)
RETRY_AFTER_STATUS_CODES == { 413, 429, 503 }

\* The answers the host can give to one GET: the status and whether a
\* Retry-After header comes with it.
Answers ==
    { [status |-> 200, retry_after |-> FALSE],
      [status |-> 403, retry_after |-> FALSE],
      [status |-> 413, retry_after |-> FALSE],
      [status |-> 413, retry_after |-> TRUE],
      [status |-> 429, retry_after |-> TRUE],
      [status |-> 500, retry_after |-> FALSE],
      [status |-> 504, retry_after |-> FALSE] }

\* Retry.is_retry for a GET, which allowed_methods of line 183 holds
is_retry(a, total) ==
    \/ a.status \in status_forcelist
    \/ total # 0 /\ a.retry_after /\ a.status \in RETRY_AFTER_STATUS_CODES

is_exhausted_at_zero(total) == total <= 0

\* Retry.is_exhausted: total is the one counter that is set, and a counter
\* of 0 is not exhausted
is_exhausted(total) == total < 0

\* One attempt of the GET is answered: an answer that is not to be retried
\* is the response; otherwise Retry.increment takes one from total and the
\* request is sent again, or RetryError is raised when total is exhausted.
Answer(a) ==
    /\ get.outcome = "pending"
    /\ LET answers == Append(get.answers, a)
       IN  IF ~ is_retry(a, get.total)
           THEN get' = [answers |-> answers, total |-> get.total,
                        outcome |-> "response"]
           ELSE IF is_exhausted(get.total - 1)
                THEN get' = [answers |-> answers, total |-> get.total - 1,
                             outcome |-> "RetryError"]
                ELSE get' = [answers |-> answers, total |-> get.total - 1,
                             outcome |-> "pending"]
    /\ UNCHANGED << crawl, cache_exists, peers >>

NextGet == \E a \in Answers : Answer(a)

\* one request to the API
OneRequest ==
    /\ repo_url.form = "api"
    /\ max_file_size = 2
    /\ use_relative_paths
    /\ GIT_AVAILABLE

InitGet ==
    /\ InitWith(RepoUrls, FALSE, {OneInclude}, {OneExclude})
    /\ OneHost
    /\ OneRequest

\* one GET of the session
SpecGet == InitGet /\ [][NextGet]_vars

\* ------------------------------------------- invocations sharing the cache

\* Invocations for one owner and repository that are in the fallback of
\* lines 393-434 at once, each in its own process. peers[i] is where
\* invocation i is: "check" before line 399, "clone" inside clone_from of
\* line 401, "pull" inside lines 404-405, "walk" in lines 410-434,
\* "returned" after line 436 and "failed" after line 408.

CacheCheck_locked(i) ==
    /\ GIT_AVAILABLE
    /\ peers[i] = "check"
    /\ \A j \in Peers \ {i} : peers[j] \notin { "clone", "pull", "walk" }
    /\ peers' = [peers EXCEPT ![i] = IF isdir(cache_dir) THEN "pull" ELSE "clone"]
    /\ UNCHANGED << crawl, cache_exists, get >>

\* line 399: the invocation looks whether cache_dir is a directory
CacheCheck(i) ==
    /\ GIT_AVAILABLE
    /\ peers[i] = "check"
    /\ peers' = [peers EXCEPT ![i] = IF isdir(cache_dir) THEN "pull" ELSE "clone"]
    /\ UNCHANGED << crawl, cache_exists, get >>

\* line 401: clone_from returns, cache_dir holds the clone
CloneEnds(i) ==
    /\ peers[i] = "clone"
    /\ peers' = [peers EXCEPT ![i] = "walk"]
    /\ cache_exists' = TRUE
    /\ UNCHANGED << crawl, get >>

\* lines 404-405: the pull returns
PullEnds(i) ==
    /\ peers[i] = "pull"
    /\ peers' = [peers EXCEPT ![i] = "walk"]
    /\ UNCHANGED << crawl, cache_exists, get >>

\* lines 406-408: clone_from, git.Repo or the pull raises
GitFails(i) ==
    /\ peers[i] \in { "clone", "pull" }
    /\ peers' = [peers EXCEPT ![i] = "failed"]
    /\ UNCHANGED << crawl, cache_exists, get >>

\* lines 410-447: the walk of cache_dir and the return
CacheWalk(i) ==
    /\ peers[i] = "walk"
    /\ peers' = [peers EXCEPT ![i] = "returned"]
    /\ UNCHANGED << crawl, cache_exists, get >>

NextShared ==
    \E i \in Peers :
        \/ CacheCheck(i)
        \/ CloneEnds(i)
        \/ PullEnds(i)
        \/ GitFails(i)
        \/ CacheWalk(i)

\* requests that reach the fallback, with GitPython
InitShared ==
    /\ InitWith(RepoUrls, FALSE, {OneInclude}, {OneExclude})
    /\ ~ selfListing
    /\ GIT_AVAILABLE
    /\ repo_url.form = "https"
    /\ Len(repo_url.path) >= 3

\* invocations in the fallback at once
SpecShared == InitShared /\ [][NextShared]_vars

\* ------------------------------------------------------ a crawl that is run

\* the host answers a contents request with something else than the 403 of
\* an exceeded rate limit
Answered ==
    \/ NotFound
    \/ OtherError
    \/ RequestFails
    \/ Listed

\* requests with one filter, against a host that may list a directory
\* under itself
InitLive == InitWith(RepoUrls, FALSE, {OneInclude}, {OneExclude})

\* The invocation is run to its end: a step that can be taken is taken in
\* the end (the code is one thread that blocks on nothing but its
\* requests and its sleeps), and the host does not answer a request with
\* rate-limit 403s for ever.
SpecLive ==
    /\ InitLive
    /\ [][Next]_vars
    /\ WF_vars(Next)
    /\ SF_vars(Answered)

\* --------------------------------------------------- the last ten claims

\* the files the walk of the clone alone gives
CloneAlone == fallback_walk(1, EmptyFiles, << >>)

\* C21: the result of the clone replaces what the API gathered. When the
\* clone or the pull of the fallback succeeds, files and skipped_files are
\* what the walk of the clone alone gives, whatever the API path had put in
\* them, and that is what is returned; when the clone or the pull fails,
\* the files the API path had gathered are returned as they were.
C21_CloneReplaces ==
    [][(pc = "fallback" /\ pc' = "done" /\ GIT_AVAILABLE) =>
          IF "error" \in DOMAIN result'.stats
          THEN result'.files = files /\ files' = files
               /\ skipped_files' = skipped_files
          ELSE /\ files' = CloneAlone.files
               /\ skipped_files' = CloneAlone.skipped_files
               /\ result'.files = files'
               /\ result'.stats.skipped_files = skipped_files']_vars

\* C21: a clone fallback returned after the API path had downloaded a
\* file; the result holds a file only the clone has.
C21_Witness ==
    /\ ReturnedResult
    /\ HasSource("git_clone")
    /\ "error" \notin DOMAIN result.stats
    /\ DOMAIN responses # {}
    /\ << ".", "g", "/", "h" >> \in DOMAIN result.files

\* the crawl made before this one ran the fallback and its clone succeeded
ClonedBefore ==
    /\ prev # NoPrev
    /\ prev.git_op = "clone"
    /\ "error" \notin DOMAIN prev.result.stats

\* C22: the cache protocol. A fallback runs the pull, and no clone, when
\* the cache directory exists, and the clone when it does not; a clone that
\* succeeds leaves the cache directory; no step removes the cache
\* directory; and after a fallback whose clone succeeded, a later fallback
\* for the same owner and repository runs the pull.
C22_CacheProtocol ==
    /\ [][(pc = "fallback" /\ pc' = "done" /\ GIT_AVAILABLE) =>
            /\ git_op' = (IF cache_exists THEN "pull" ELSE "clone")
            /\ ("error" \notin DOMAIN result'.stats => cache_exists')]_vars
    /\ [][cache_exists => cache_exists']_vars
    /\ []((ClonedBefore /\ git_op # NoOp) => git_op = "pull")

\* C22: the first crawl cloned into the cache, the second one fell back
\* again and pulled.
C22_Witness ==
    /\ ClonedBefore
    /\ pc = "done"
    /\ git_op = "pull"
    /\ HasSource("git_clone")

\* the attempts made for the GET so far
Attempts == Len(get.answers)

\* the answers that were followed by another attempt
Retried == { i \in 1..Attempts : i < Attempts \/ get.outcome = "RetryError" }

\* C23 as stated: a GET whose every answer has a status of 429, 500, 502,
\* 503 or 504 is attempted at most 5 times, the first request included, and
\* an answer with another status is never retried.
C23_FiveAttempts ==
    /\ (\A i \in 1..Attempts : get.answers[i].status \in status_forcelist)
          => Attempts <= 5
    /\ \A i \in Retried : get.answers[i].status \in status_forcelist

\* C23, amended: a GET is attempted at most 6 times, the first request and
\* 5 retries; it is given up with RetryError only after 6 answers that were
\* all to be retried; and an answer is retried only if its status is 429,
\* 500, 502, 503 or 504, or if it is a 413 that carries a Retry-After
\* header.
C23_BoundedRetry ==
    /\ Attempts <= RetryTotal + 1
    /\ get.outcome = "RetryError" => Attempts = RetryTotal + 1
    /\ \A i \in Retried :
           \/ get.answers[i].status \in status_forcelist
           \/ get.answers[i].status = 413 /\ get.answers[i].retry_after
    /\ get.outcome = "response" =>
           get.answers[Attempts].status \notin status_forcelist

\* C23: a GET whose every answer was a 500 or a 504 is given up.
C23_Witness ==
    /\ get.outcome = "RetryError"
    /\ \A i \in 1..Attempts : get.answers[i].status \in { 500, 504 }

\* C24 as stated: a pattern, include or exclude, matches a file when it
\* glob-matches the file's relative path or its basename: the filter keeps
\* a file exactly when no include pattern is given or one matches its path
\* or name, and no exclude pattern matches its path or name.
C24_PathOrName ==
    \A path \in FilterPaths :
        should_include_file(path, basename(path))
          <=> /\ (include_patterns = {} \/ IncludeHitsPath(path) \/ IncludeHitsName(path))
              /\ ~ (ExcludeHitsPath(path) \/ ExcludeHitsName(path))

\* C24, amended: an include pattern matches a file by its basename only and
\* an exclude pattern by its relative path only. The filter keeps a file
\* exactly when no include pattern is given or one matches its name, and no
\* exclude pattern matches its path; a listed directory is skipped exactly
\* when an exclude pattern matches its path; and every key of files has
\* passed the filter in that way.
C24_PatternScope ==
    /\ \A path \in FilterPaths :
         should_include_file(path, basename(path))
           <=> /\ (include_patterns = {} \/ IncludeHitsName(path))
               /\ ~ ExcludeHitsPath(path)
    /\ \A d \in RepoDirs : dir_excluded(d.path) <=> ExcludeHitsPath(d.path)
    /\ \A k \in DOMAIN files :
         /\ (include_patterns = {} \/ IncludeHitsName(k))
         /\ ~ ExcludeHitsPath(k)

\* C24: an API crawl returned a file that an include pattern matches by
\* name and not by path, and that an exclude pattern matches by name and
\* not by path.
C24_Witness ==
    /\ ApiResult
    /\ \E k \in DOMAIN result.files :
         /\ IncludeHitsName(k)
         /\ ~ IncludeHitsPath(k)
         /\ ExcludeHitsName(k)
         /\ ~ ExcludeHitsPath(k)

\* the entries of a list, as a set
Entries(sk) == { sk[i] : i \in 1..Len(sk) }

\* the SSH walk and the fallback walk of one clone give the same files and
\* the same skipped files
SshLikeFallback ==
    (specific_path = EmptyStr) =>
        LET a == ssh_walk(1, EmptyFiles, << >>)
            b == fallback_walk(1, EmptyFiles, << >>)
        IN  /\ DOMAIN a.files = DOMAIN b.files
            /\ Entries(a.skipped_files) = Entries(b.skipped_files)

\* C25 as stated: the API walker, the walk of the fallback clone and the
\* walk of the SSH clone filter alike. A request answered by the API with
\* nothing but 200s and the same request answered by the clone fallback
\* give the same keys of files and the same skipped files, and so do the
\* two clone walks.
C25_SameFiltering ==
    /\ ( /\ prev # NoPrev
         /\ prev.undisturbed
         /\ prev.all200
         /\ HasSource("git_clone")
         /\ "error" \notin DOMAIN result.stats )
       => /\ DOMAIN result.files = DOMAIN prev.result.files
          /\ Entries(result.stats.skipped_files)
               = Entries(prev.result.stats.skipped_files)
    /\ SshLikeFallback

\* the listed file a key of files was filled from
ListedOrigin(k) == FileAt(Origin(k))

\* C26 as stated: the size gate. In what the API walk gathers, no file
\* whose listed size, live Content-Length or base64 content is over
\* max_file_size is a key of files; every entry of skipped_files names a
\* listed file with such a size, the one entry records; and in a crawl
\* answered with nothing but 200s that agree with the repository, a file
\* that passes the patterns and is not over max_file_size (a file of
\* exactly max_file_size included) is accepted.
C26_SizeGate ==
    (FilesFromApi /\ ~ HasSource("ssh_clone")) =>
        /\ \A k \in DOMAIN files :
             /\ ListedOrigin(k).size <= max_file_size
             /\ GoodAnswer(responses[Origin(k)])
        /\ \A i \in 1..Len(skipped_files) :
             LET path == skipped_files[i][1]
                 size == skipped_files[i][2]
             IN  /\ size > max_file_size
                 /\ \/ size = FileAt(path).size
                    \/ /\ path \in DOMAIN responses
                       /\ responses[path].via = "download_url"
                       /\ size = responses[path].content_length
                    \/ /\ path \in DOMAIN responses
                       /\ responses[path].via = "url"
                       /\ encoded_len(size) = responses[path].content_len
        /\ (ApiResult /\ all200 /\ Undisturbed) =>
             \A f \in RepoFiles :
                 ( /\ f.path \in listed
                   /\ should_include_file(rel_path_of(f.path), basename(f.path))
                   /\ f.size <= max_file_size )
                 => rel_path_of(f.path) \in DOMAIN result.files

\* C27: termination. Run against a host with finite listings, a directory
\* that lists itself included, that answers no request with rate-limit
\* 403s for ever, the invocation returns or raises in the end; and whenever
\* a contents request is out, one more rate-limit wait can follow, however
\* many there were before.
C27_Terminates ==
    /\ <>(pc = "done")
    /\ [](pc = "request" => ENABLED RateLimited)

\* C27: the walk of a repository with a directory that lists itself
\* returned, every listing it requested being processed; the answers that
\* were not a 200 were rate-limit 403s, which it waited for.
C27_Witness ==
    /\ ApiResult
    /\ selfListing
    /\ LoopDir \in requested
    /\ ~ all200
    /\ Undisturbed
    /\ \A p \in DOMAIN responses : responses[p].status = 200

\* C28: nothing serialises the invocations that share the cache. An
\* invocation that has reached the check of the cache directory can make
\* it whatever the others are doing, and what it does next depends on the
\* directory alone: it clones when the directory is missing, even while
\* another invocation is cloning into it, and pulls when it is there, even
\* while another one walks it.
C28_Unserialised ==
    /\ \A i \in Peers : peers[i] = "check" => ENABLED CacheCheck(i)
    /\ \A i \in Peers :
         (peers[i] = "clone" /\ ~ cache_exists) => ENABLED CloneEnds(i)

\* C28: two invocations saw the cache directory missing and are both
\* cloning into it.
C28_Witness ==
    /\ ~ cache_exists
    /\ \E i, j \in Peers :
         /\ i # j
         /\ peers[i] = "clone"
         /\ peers[j] = "clone"

\* C29 as stated: subpath confinement. When the URL names a subpath, every
\* key of the returned files was filled from a file under that subpath,
\* whichever branch returned and whatever use_relative_paths is.
C29_SubpathConfinement ==
    (ReturnedResult /\ specific_path # EmptyStr) =>
        \A k \in DOMAIN result.files :
            under(result.files[k][2], specific_path)

\* C30 as stated: the split of a tree URL into ref and subpath. Once the
\* ref is resolved, the path after tree/ is the ref when the subpath is
\* empty and the ref, a slash and the subpath otherwise, however many
\* segments the ref has.
C30_RefSubpathSplit ==
    (pc \notin { "start", "done" } /\ has_tree /\ ref # None) =>
        join_parts(3) = IF specific_path = EmptyStr
                        THEN ref
                        ELSE ref \o << "/" >> \o specific_path

=============================================================================
